---- MODULE Spec2Model ----
(***************************************************************************)
(* glone: synchronisation of a list of repository providers.               *)
(*                                                                         *)
(* main loads the configuration and calls git::download once per provider, *)
(* in list order.  download either clones (sync_dir is not an existing     *)
(* directory) or pulls (open, find_remote("origin"), fetch, merge).        *)
(*                                                                         *)
(* The repository object model and the transport are libgit2's.  They are  *)
(* modelled by what the calls made by git.rs do:                           *)
(*   - a commit is an entry of the object store `commits` (parents, tree); *)
(*     a tree gives every file of Files a content;                         *)
(*   - merge_analysis, merge_base and merge_trees are computed from the    *)
(*     commit graph and the trees;                                         *)
(*   - a checkout compares the working tree with a baseline (the tree of   *)
(*     HEAD) and a target; the default strategy is the safe one (a file    *)
(*     is written only when the target differs from the baseline and the   *)
(*     working tree file is unmodified; a modified file that would be      *)
(*     overwritten makes the whole checkout fail), force() writes every    *)
(*     file of the target;                                                 *)
(*   - a clone that fails removes what it created under sync_dir;          *)
(*   - a panic inside a credentials callback makes the transfer fail and   *)
(*     is resumed when the libgit2 call returns.                           *)
(* A panic (panic!, unwrap on None/Err, todo!) ends the process.           *)
(***************************************************************************)
EXTENDS Integers, Sequences, FiniteSets, TLC

\* ------------------------------------------------------------------ bounds
MaxProviders == 2
MaxRuns == 2
\* The objects of a transfer, and the transfer-progress callbacks of one transfer.
MaxObjects == 4
MaxCallbacks == 6

\* ------------------------------------------------------------ object model
Files == {"f", "g"}
Branches == {"main", "dev"}

\* Contents of a file.  Absent: no file at that path.  Edited: an uncommitted
\* local modification.  ConflictMarkers: a file written with conflict markers.
Absent == "absent"
Edited == "edited"
ConflictMarkers == "<<<<<<<"

\* The target of a reference that does not exist (find_reference -> Err).
NoCommit == 0

MkTree(cf, cg) == [x \in Files |-> IF x = "f" THEN cf ELSE cg]
EmptyTree == MkTree(Absent, Absent)

MkCommit(ps, t) == [parents |-> ps, tree |-> t]

\* The commits that exist before the first run (locally and/or on a remote).
\*   1: root                       f=v0 g=v0
\*   2: child of 1, edits f        f=v1 g=v0
\*   3: child of 1, edits g        f=v0 g=v1
\*   4: child of 1, edits f        f=v2 g=v0   (conflicts with 2)
\*   5: child of 1, edits f and g  f=v1 g=v1   (same edit of f as 2)
\*   6: root of an unrelated history
BaseCommits ==
    << MkCommit(<<>>, MkTree("v0", "v0")),
       MkCommit(<<1>>, MkTree("v1", "v0")),
       MkCommit(<<1>>, MkTree("v0", "v1")),
       MkCommit(<<1>>, MkTree("v2", "v0")),
       MkCommit(<<1>>, MkTree("v1", "v1")),
       MkCommit(<<>>, MkTree("v3", "v3")) >>

TreeOf(cs, c) == IF c = NoCommit THEN EmptyTree ELSE cs[c].tree

RECURSIVE Ancestors(_, _)
\* The commits reachable from c through parent links, c included.
Ancestors(cs, c) ==
    IF c = NoCommit THEN {}
    ELSE {c} \cup UNION { Ancestors(cs, cs[c].parents[k]) : k \in DOMAIN cs[c].parents }

IsAncestor(cs, a, b) == a \in Ancestors(cs, b)

\* repo.merge_base: a best common ancestor, NoCommit when there is none (Err).
MergeBase(cs, a, b) ==
    LET common == Ancestors(cs, a) \cap Ancestors(cs, b)
        best == { x \in common : \A y \in common \ {x} : ~ IsAncestor(cs, x, y) }
    IN  IF best = {} THEN NoCommit
        ELSE CHOOSE x \in best : \A y \in best : x <= y

\* ------------------------------------------------------------ configuration
Some(s) == [some |-> TRUE, val |-> s]
None == [some |-> FALSE, val |-> <<>>]

\* str::starts_with(char)
StartsWith(s, ch) == Len(s) > 0 /\ s[1] = ch

MkAuth(t, u, pw, pa) == [type |-> t, username |-> u, password |-> pw, path |-> pa]

UVar == <<"_", "U">>
PVar == <<"_", "P">>
UBad == <<"U">>
PBad == <<"P">>
KeyPath == <<"k">>

HttpsUrl == "https://host/r.git"
SshUrl == "ssh://git@host/r.git"

\* What libgit2 hands the credentials callback as username_from_url.
UsernameFromUrl(url) == IF url = SshUrl THEN Some(<<"g", "i", "t">>) ELSE None

MkProvider(u, b, a) == [url |-> u, branch |-> b, auth |-> a]


\* is_valid_cred testing the username only.
IsValidCredUsernameOnly(auth) ==
    IF ~ auth.username.some THEN [panic |-> TRUE, value |-> FALSE]
    ELSE [panic |-> FALSE, value |-> StartsWith(auth.username.val, "_")]

\* Auth::is_valid_cred.  unwrap() of an absent field panics; && does not
\* evaluate its right operand when the left one is false.
IsValidCred(auth) ==
    IF ~ auth.username.some THEN [panic |-> TRUE, value |-> FALSE]
    ELSE IF ~ StartsWith(auth.username.val, "_") THEN [panic |-> FALSE, value |-> FALSE]
    ELSE IF ~ auth.password.some THEN [panic |-> TRUE, value |-> FALSE]
    ELSE [panic |-> FALSE, value |-> StartsWith(auth.password.val, "_")]

\* Auth::get_username / get_password: env::var(name).unwrap().  env is the set
\* of the variable names that are set.
GetEnv(name, env) ==
    IF ~ name.some THEN [panic |-> TRUE, read |-> FALSE]
    ELSE [panic |-> name.val \notin env, read |-> TRUE]

\* Auth::get_ssh_path: self.path.as_ref().unwrap()
GetSshPath(auth) == [panic |-> ~ auth.path.some, value |-> auth.path]

\* config::Auth::get_ssh_path of the config module inlined in main.rs:
\* self.password.as_ref().unwrap()
GetSshPathInline(auth) == [panic |-> ~ auth.password.some, value |-> auth.password]

\* ---------------------------------------------------------------- checkout
\* A checkout of target tree T over working tree W with baseline B.
\* blocked: the files the target changes and the working tree has modified.
Checkout(B, T, W, force, allowConflicts) ==
    LET blocked == { x \in Files : B[x] # T[x] /\ W[x] \notin {B[x], T[x]} }
    IN  IF force
        THEN [ok |-> TRUE,
              wt |-> [x \in Files |->
                        IF T[x] = Absent /\ B[x] = Absent THEN W[x] ELSE T[x]]]
        ELSE IF blocked # {} /\ ~ allowConflicts
        THEN [ok |-> FALSE, wt |-> W]
        ELSE [ok |-> TRUE,
              wt |-> [x \in Files |->
                        IF B[x] # T[x] /\ x \notin blocked THEN T[x] ELSE W[x]]]

\* ------------------------------------------------------------------- merge
\* repo.merge_trees(ancestor, ours, theirs): the merged index, file by file.
MergeTrees(anc, ours, theirs) ==
    [x \in Files |->
        IF ours[x] = theirs[x] THEN ours[x]
        ELSE IF ours[x] = anc[x] THEN theirs[x]
        ELSE IF theirs[x] = anc[x] THEN ours[x]
        ELSE ConflictMarkers]

HasConflicts(idx) == \E x \in Files : idx[x] = ConflictMarkers

\* The commit HEAD resolves to (NoCommit: HEAD is unborn).
HeadCommit(repo) == repo.refs[repo.head]

\* The flags of a merge analysis.
MkAnalysis(ff, nm, up, ub) ==
    [fast_forward |-> ff, normal |-> nm, up_to_date |-> up, unborn |-> ub]

\* A classification that takes the local head to be up to date only when it
\* is the fetched commit itself.
ClassifyByEquality(ours, fetched, base) ==
    IF ours = NoCommit THEN MkAnalysis(TRUE, FALSE, FALSE, TRUE)
    ELSE IF ours = fetched THEN MkAnalysis(FALSE, FALSE, TRUE, FALSE)
    ELSE IF base # NoCommit /\ base = ours THEN MkAnalysis(TRUE, TRUE, FALSE, FALSE)
    ELSE MkAnalysis(FALSE, TRUE, FALSE, FALSE)

\* libgit2's classification, given the merge base of HEAD's commit and the
\* fetched commit.
Classify(ours, fetched, base) ==
    IF ours = NoCommit THEN MkAnalysis(TRUE, FALSE, FALSE, TRUE)
    ELSE IF base # NoCommit /\ base = fetched THEN MkAnalysis(FALSE, FALSE, TRUE, FALSE)
    ELSE IF base # NoCommit /\ base = ours THEN MkAnalysis(TRUE, TRUE, FALSE, FALSE)
    ELSE MkAnalysis(FALSE, TRUE, FALSE, FALSE)

\* repo.merge_analysis(&[fetch_commit]): relative to HEAD.
MergeAnalysis(cs, repo, fetched) ==
    Classify(HeadCommit(repo), fetched, MergeBase(cs, HeadCommit(repo), fetched))

\* The result of merge and of the functions it calls.
MkMerge(r, c, o, out, e) == [repo |-> r, cs |-> c, ops |-> o, outcome |-> out, err |-> e]

\* The steps of fast_forward at which an error can be returned ("none": no error).
Faults == {"none", "set_target", "set_head", "checkout"}

\* repo.checkout_head(opts) on repository r: baseline and target are HEAD's tree.
CheckoutHead(cs, r, force, allowConflicts) ==
    Checkout(TreeOf(cs, HeadCommit(r)), TreeOf(cs, HeadCommit(r)), r.wt, force, allowConflicts)

\* fast_forward with checkout_head(None) in place of the forced checkout.
FastForwardSafe(cs, repo, name, rc, fault) ==
    MkMerge([repo EXCEPT !.refs[name] = rc, !.head = name,
                         !.wt = CheckoutHead(cs, [repo EXCEPT !.refs[name] = rc,
                                                              !.head = name],
                                             FALSE, FALSE).wt],
            cs, <<"set_target", "set_head", "checkout_head">>, "FastForwarded", "")

\* fast_forward(repo, lb, rc): lb is refs/heads/<name>.
FastForward(cs, repo, name, rc, fault) ==
    IF fault = "set_target"
    THEN MkMerge(repo, cs, <<"set_target">>, "MergeError", "set_target")
    ELSE IF fault = "set_head"
    THEN MkMerge([repo EXCEPT !.refs[name] = rc], cs, <<"set_target", "set_head">>,
                 "MergeError", "set_head")
    ELSE IF fault = "checkout"
    THEN MkMerge([repo EXCEPT !.refs[name] = rc, !.head = name], cs,
                 <<"set_target", "set_head", "checkout_head">>, "MergeError", "checkout_head")
    ELSE MkMerge([repo EXCEPT !.refs[name] = rc, !.head = name,
                              !.wt = CheckoutHead(cs, [repo EXCEPT !.refs[name] = rc,
                                                                   !.head = name],
                                                  TRUE, FALSE).wt],
                 cs, <<"set_target", "set_head", "checkout_head">>, "FastForwarded", "")

\* normal_merge, has_conflicts arm: co is the result of checkout_index(idx, None).
MergeConflict(cs, repo, co) ==
    MkMerge([repo EXCEPT !.wt = co.wt], cs, <<"merge_base", "merge_trees", "checkout_index">>,
            "ConflictDetected", IF co.ok THEN "" ELSE "checkout_index")

\* normal_merge, after repo.commit(Some("HEAD"), ..): r2 is the repository with
\* HEAD's branch on the new commit, co the result of checkout_head(None).
MergeCommitted(cs2, r2, co) ==
    MkMerge([r2 EXCEPT !.wt = co.wt], cs2,
            <<"merge_base", "merge_trees", "signature", "commit", "checkout_head">>,
            "Merged", IF co.ok THEN "" ELSE "checkout_head")

\* normal_merge without the has_conflicts test: the merged index is committed.
MergeIndexCommitsConflicts(cs, repo, local, remote, sigOk, idx) ==
    MergeCommitted(Append(cs, MkCommit(<<local, remote>>, idx)),
                   [repo EXCEPT !.refs[repo.head] = Len(cs) + 1],
                   Checkout(idx, idx, repo.wt, FALSE, FALSE))

\* normal_merge from the merged index on.
MergeIndex(cs, repo, local, remote, sigOk, idx) ==
    IF HasConflicts(idx)
    THEN MergeConflict(cs, repo,
                       Checkout(TreeOf(cs, HeadCommit(repo)), idx, repo.wt, FALSE, FALSE))
    ELSE IF ~ sigOk
    THEN MkMerge(repo, cs, <<"merge_base", "merge_trees", "signature">>, "MergeError",
                 "signature")
    ELSE MergeCommitted(Append(cs, MkCommit(<<local, remote>>, idx)),
                        [repo EXCEPT !.refs[repo.head] = Len(cs) + 1],
                        Checkout(idx, idx, repo.wt, FALSE, FALSE))

\* normal_merge from the merge base on.
MergeFromBase(cs, repo, local, remote, sigOk, base) ==
    IF base = NoCommit
    THEN MkMerge(repo, cs, <<"merge_base">>, "MergeError", "merge_base")
    ELSE MergeIndex(cs, repo, local, remote, sigOk,
                    MergeTrees(TreeOf(cs, base), TreeOf(cs, local), TreeOf(cs, remote)))

\* normal_merge(repo, local, remote).  sigOk: repo.signature() finds an identity.
NormalMerge(cs, repo, local, remote, sigOk) ==
    MergeFromBase(cs, repo, local, remote, sigOk, MergeBase(cs, local, remote))

\* merge, Err(_) arm of find_reference: repo.reference(refname, id, true),
\* set_head(refname), checkout_head(force, allow_conflicts).
CreateBranch(cs, repo, branch, fetched) ==
    MkMerge([repo EXCEPT !.refs[branch] = fetched, !.head = branch,
                         !.wt = CheckoutHead(cs, [repo EXCEPT !.refs[branch] = fetched,
                                                              !.head = branch],
                                             TRUE, TRUE).wt],
            cs, <<"reference", "set_head", "checkout_head">>, "BranchCreated", "")

\* merge: the arm taken for an analysis.
MergeArm(cs, repo, branch, fetched, sigOk, fault, analysis) ==
    IF analysis.fast_forward
    THEN IF repo.refs[branch] # NoCommit
         THEN FastForward(cs, repo, branch, fetched, fault)
         ELSE CreateBranch(cs, repo, branch, fetched)
    ELSE IF analysis.normal
    THEN NormalMerge(cs, repo, HeadCommit(repo), fetched, sigOk)
    ELSE MkMerge(repo, cs, <<>>, "UpToDate", "")

\* merge(repo, remote_branch, fetch_commit)
Merge(cs, repo, branch, fetched, sigOk, fault) ==
    MergeArm(cs, repo, branch, fetched, sigOk, fault, MergeAnalysis(cs, repo, fetched))

\* --------------------------------------------------------------- transport
\* A directory entry at sync_dir.  kind: "missing", "file" (exists, not a
\* directory), "emptydir", "dir" (a directory that is no repository), "repo".
NullRepo ==
    [origin |-> FALSE, head |-> "main", refs |-> [b \in Branches |-> NoCommit],
     wt |-> EmptyTree, fetchHead |-> NoCommit]

MkDir(k) == [kind |-> k, repo |-> NullRepo]
MkRepoDir(r) == [kind |-> "repo", repo |-> r]

\* The result of download: what is at sync_dir afterwards, the object store,
\* the path taken, the operations in order, the panic (if any), the outcome.
MkResult(d, c, pa, o, pn, out, e, fc) ==
    [dir |-> d, cs |-> c, path |-> pa, ops |-> o, panic |-> pn, outcome |-> out,
     err |-> e, fetched |-> fc]

\* The closure clone gives to callbacks.credentials for Token auth:
\* Cred::userpass_plaintext(get_username(), get_password()).
TokenCallback(auth, env) ==
    IF GetEnv(auth.username, env).panic
    THEN [ops |-> <<"env_read">>, panic |-> "env_var"]
    ELSE IF GetEnv(auth.password, env).panic
    THEN [ops |-> <<"env_read", "env_read">>, panic |-> "env_var"]
    ELSE [ops |-> <<"env_read", "env_read", "cred_submit">>, panic |-> ""]

\* The closure for Ssh auth: Cred::ssh_key(username_from_url.unwrap(), None,
\* get_ssh_path(), None).
SshCallback(p) ==
    IF ~ UsernameFromUrl(p.url).some THEN [ops |-> <<>>, panic |-> "ssh_username"]
    ELSE IF GetSshPath(p.auth).panic THEN [ops |-> <<>>, panic |-> "ssh_path"]
    ELSE [ops |-> <<"cred_submit">>, panic |-> ""]

\* The credentials closure of strategy kind ("token" or "ssh"), run when the
\* remote challenges.
CredCallback(p, kind, env) ==
    IF kind = "token" THEN TokenCallback(p.auth, env) ELSE SshCallback(p)

\* A failed clone that leaves the directory it initialised.
CloneCleanupLeavesDir(dir) == IF dir.kind = "missing" THEN MkDir("dir") ELSE dir

\* What a failed clone leaves at sync_dir: libgit2 removes what it created,
\* and the directory itself unless it was there before.
CloneCleanup(dir) == IF dir.kind = "missing" THEN MkDir("missing") ELSE dir

\* The strategy clone installs for the provider's auth: "token", "ssh", "none".
CredStrategy(p) ==
    IF p.auth.type = "Token"
    THEN IF IsValidCred(p.auth).value THEN "token" ELSE "none"
    ELSE IF p.auth.type = "Ssh" THEN "ssh" ELSE "none"

\* The repository a successful clone of branch b at commit tip creates.
ClonedRepo(cs, b, tip) ==
    [origin |-> TRUE, head |-> b,
     refs |-> [x \in Branches |-> IF x = b THEN tip ELSE NoCommit],
     wt |-> TreeOf(cs, tip), fetchHead |-> NoCommit]

\* A clone that fails after RepoBuilder::clone has initialised sync_dir.
CloneFails(dir, cs, o, pn, e) ==
    MkResult(CloneCleanup(dir), cs, "clone", <<"clone", "init", "connect">> \o o \o <<"rmdir">>,
             pn, IF pn = "" THEN "CloneFailed" ELSE "Panicked", e, NoCommit)

\* builder.branch(..).clone(url, repo_path) when the remote challenges: cb is
\* the result of the credentials closure.
CloneChallenged(p, dir, rem, cs, accept, cb) ==
    IF cb.panic # "" THEN CloneFails(dir, cs, <<"challenge">> \o cb.ops, cb.panic, "")
    ELSE IF ~ accept THEN CloneFails(dir, cs, <<"challenge">> \o cb.ops, "", "auth")
    ELSE MkResult(MkRepoDir(ClonedRepo(cs, p.branch, rem.tips[p.branch])), cs, "clone",
                  <<"clone", "init", "connect", "challenge">> \o cb.ops
                    \o <<"transfer", "checkout">>,
                  "", "Cloned", "", NoCommit)

\* builder.branch(..).clone(url, repo_path) with credentials strategy kind.
CloneWith(p, dir, rem, cs, reachable, accept, env, kind) ==
    IF dir.kind \notin {"missing", "emptydir"}
    THEN MkResult(dir, cs, "clone", <<"clone">>, "", "CloneFailed", "exists", NoCommit)
    ELSE IF ~ reachable THEN CloneFails(dir, cs, <<>>, "", "network")
    ELSE IF ~ rem.needsAuth
    THEN MkResult(MkRepoDir(ClonedRepo(cs, p.branch, rem.tips[p.branch])), cs, "clone",
                  <<"clone", "init", "connect", "transfer", "checkout">>,
                  "", "Cloned", "", NoCommit)
    ELSE IF kind = "none" THEN CloneFails(dir, cs, <<"challenge">>, "", "auth")
    ELSE CloneChallenged(p, dir, rem, cs, accept, CredCallback(p, kind, env))

\* clone(provider, repo_path).  rem: the remote at provider.url; reachable: the
\* transport connects; accept: the remote accepts the credentials submitted.
Clone(p, dir, rem, cs, reachable, accept, env) ==
    IF p.auth.type = "Token" /\ IsValidCred(p.auth).panic
    THEN MkResult(dir, cs, "clone", <<>>, "is_valid_cred", "Panicked", "", NoCommit)
    ELSE CloneWith(p, dir, rem, cs, reachable, accept, env, CredStrategy(p))

\* A fetch that also moves the local branch to the fetched commit.
FetchUpdatesBranch(repo, branch, rem, reachable) ==
    IF ~ reachable
    THEN [ok |-> FALSE, repo |-> repo, ops |-> <<"connect">>, commit |-> NoCommit]
    ELSE IF rem.needsAuth
    THEN [ok |-> FALSE, repo |-> repo, ops |-> <<"connect", "challenge">>, commit |-> NoCommit]
    ELSE [ok |-> TRUE,
          repo |-> [repo EXCEPT !.fetchHead = rem.tips[branch], !.refs[branch] = rem.tips[branch]],
          ops |-> <<"connect", "transfer", "fetch_head">>, commit |-> rem.tips[branch]]

\* fetch(repo, refs, remote, m): no credentials callback is installed.
Fetch(repo, branch, rem, reachable) ==
    IF ~ reachable
    THEN [ok |-> FALSE, repo |-> repo, ops |-> <<"connect">>, commit |-> NoCommit]
    ELSE IF rem.needsAuth
    THEN [ok |-> FALSE, repo |-> repo, ops |-> <<"connect", "challenge">>, commit |-> NoCommit]
    ELSE [ok |-> TRUE, repo |-> [repo EXCEPT !.fetchHead = rem.tips[branch]],
          ops |-> <<"connect", "transfer", "fetch_head">>, commit |-> rem.tips[branch]]

\* pull, `let _ = merge(..)`: the result of merge is dropped.
PullMerged(fe, me) ==
    MkResult(MkRepoDir(me.repo), me.cs, "pull",
             <<"open", "find_remote", "fetch">> \o fe.ops \o <<"merge_analysis">> \o me.ops,
             "", me.outcome, me.err, fe.commit)

\* pull from fetch(..).unwrap() on: fe is the result of fetch.
PullFetched(p, dir, cs, sigOk, fault, fe) ==
    IF ~ fe.ok
    THEN MkResult(dir, cs, "pull", <<"open", "find_remote", "fetch">> \o fe.ops, "fetch",
                  "Panicked", "", NoCommit)
    ELSE PullMerged(fe, Merge(cs, fe.repo, p.branch, fe.commit, sigOk, fault))

\* A pull that resolves the provider's credentials before it opens the
\* repository, as clone does.
PullResolvesAuth(p, dir, rem, cs, reachable, sigOk, fault) ==
    IF p.auth.type = "Token" /\ IsValidCred(p.auth).panic
    THEN MkResult(dir, cs, "pull", <<>>, "is_valid_cred", "Panicked", "", NoCommit)
    ELSE IF dir.kind # "repo"
    THEN MkResult(dir, cs, "pull", <<"open">>, "open", "Panicked", "", NoCommit)
    ELSE IF ~ dir.repo.origin
    THEN MkResult(dir, cs, "pull", <<"open", "find_remote">>, "find_remote", "Panicked", "",
                  NoCommit)
    ELSE PullFetched(p, dir, cs, sigOk, fault, Fetch(dir.repo, p.branch, rem, reachable))

\* pull(provider, repo_path)
Pull(p, dir, rem, cs, reachable, sigOk, fault) ==
    IF dir.kind # "repo"
    THEN MkResult(dir, cs, "pull", <<"open">>, "open", "Panicked", "", NoCommit)
    ELSE IF ~ dir.repo.origin
    THEN MkResult(dir, cs, "pull", <<"open", "find_remote">>, "find_remote", "Panicked", "",
                  NoCommit)
    ELSE PullFetched(p, dir, cs, sigOk, fault, Fetch(dir.repo, p.branch, rem, reachable))

\* repo_path.exists() without is_dir().
IsExistingDirNoIsDir(dir) == dir.kind # "missing"

\* repo_path.exists() && repo_path.is_dir()
IsExistingDir(dir) == dir.kind \in {"emptydir", "dir", "repo"}

\* download(provider, m)
DownloadResult(p, dir, rem, cs, reachable, accept, env, sigOk, fault) ==
    IF IsExistingDir(dir)
    THEN Pull(p, dir, rem, cs, reachable, sigOk, fault)
    ELSE Clone(p, dir, rem, cs, reachable, accept, env)

\* What a download call writes to the log and to standard output, from the
\* path it took, its operations and the arm of merge; download, pull and clone
\* return ().
LogLines(path, ops, outcome, panic) ==
    (IF path = "pull" /\ panic = "open"
     THEN <<"Failed to open the repository">> ELSE <<>>)
    \o (IF \E k \in DOMAIN ops : ops[k] = "fetch" THEN <<"Fetching origin for repo">> ELSE <<>>)
    \o (IF \E k \in DOMAIN ops : ops[k] \in {"set_target", "reference"}
        THEN <<"Doing a fast forward">> ELSE <<>>)
    \o (IF \E k \in DOMAIN ops : ops[k] = "set_target"
        THEN <<"Fast-Forward: Setting">> ELSE <<>>)
    \o (IF \E k \in DOMAIN ops : ops[k] = "checkout_index"
        THEN <<"Merge conflicts detected...">> ELSE <<>>)
    \o (IF outcome = "UpToDate" THEN <<"There is nothing to do...">> ELSE <<>>)

\* -------------------------------------------------------- transfer progress
\* `let n = 100`: the length the bar is created with.
BarLength == 100

\* No bar: no transfer has started.
NoBar == [kind |-> "", len |-> 0, pos |-> 0, finished |-> FALSE, finishes |-> 0]

NoStats == [received |-> 0, total |-> 0, calls |-> 0]

\* m.add(ProgressBar::new(n)) in clone (kind "clone") and in fetch ("fetch").
NewBar(kind) ==
    [kind |-> kind, len |-> BarLength, pos |-> 0, finished |-> FALSE, finishes |-> 0]

\* The closure given to transfer_progress, the same in clone and in fetch:
\* set_length(total); finish_with_message when received == total (finish moves
\* the position to the length), inc(1) otherwise.  finishes counts the calls
\* of finish_with_message.
ProgressCallback(bar, received, total) ==
    IF received = total
    THEN [bar EXCEPT !.len = total, !.pos = total, !.finished = TRUE,
                     !.finishes = bar.finishes + 1]
    ELSE [bar EXCEPT !.len = total, !.pos = bar.pos + 1]

\* ------------------------------------------------------------------- state
VARIABLES
    cfgFile,    \* the configuration file: [kind, providers]
    config,     \* GloneOptions.config: None or Some(provider list)
    fs,         \* fs[i]: what is at providers[i].sync_dir
    remote,     \* remote[i]: the remote at providers[i].url: [tips, needsAuth]
    commits,    \* the object store
    pc,         \* "start", "loop", "done", "panicked"
    idx,        \* the position of main's for loop
    run,        \* the number of the current run of the program
    attempts,   \* the download calls of the current run: [i, path, outcome]
    prevRun,    \* the download calls of the previous run
    last,       \* the last download call
    pb,         \* the progress bar of the transfer: [kind, len, pos, finished, finishes]
    stats       \* the transport's git2::Progress: [received, total, calls]

vars == <<cfgFile, config, fs, remote, commits, pc, idx, run, attempts, prevRun, last,
          pb, stats>>

NoSync ==
    [i |-> 0, p |-> MkProvider("", "main", MkAuth("Public", None, None, None)),
     path |-> "", ops |-> <<>>, panic |-> "", outcome |-> "", err |-> "",
     fetched |-> NoCommit, fault |-> "none", sigOk |-> TRUE, pre |-> MkDir("missing"),
     ncommits |-> 0]

\* ------------------------------------------------------------ initial states
TokenAuth(u, pw) == MkAuth("Token", u, pw, None)

AuthPool ==
    { MkAuth("Public", None, None, None),
      MkAuth("Ssh", None, None, Some(KeyPath)),
      MkAuth("Ssh", None, None, None),
      MkAuth("Ssh", None, Some(PBad), Some(KeyPath)),
      TokenAuth(Some(UVar), Some(PVar)),
      TokenAuth(Some(UBad), Some(PVar)),
      TokenAuth(Some(UVar), Some(PBad)),
      TokenAuth(None, Some(PVar)),
      TokenAuth(Some(UBad), None),
      TokenAuth(Some(UVar), None) }

ProviderPool ==
    { MkProvider(HttpsUrl, b, MkAuth("Public", None, None, None)) : b \in Branches }
    \cup { MkProvider(HttpsUrl, "main", a) : a \in AuthPool }
    \cup { MkProvider(SshUrl, "main", a) : a \in { x \in AuthPool : x.type = "Ssh" } }

EnvPool == SUBSET {UVar, PVar}

\* The tips a local branch starts with.
LocalTips == {NoCommit, 1, 2}

CleanRepo(h, rf) ==
    [origin |-> TRUE, head |-> h, refs |-> rf, wt |-> TreeOf(BaseCommits, rf[h]),
     fetchHead |-> NoCommit]

RepoPool ==
    LET clean == { CleanRepo(h, rf) : h \in Branches, rf \in [Branches -> LocalTips] }
    IN  clean
        \cup { [r EXCEPT !.wt["f"] = Edited] : r \in clean }
        \cup { [CleanRepo("main", [b \in Branches |-> 1]) EXCEPT !.origin = FALSE] }

DirPool ==
    { MkDir(k) : k \in {"missing", "file", "emptydir", "dir"} }
    \cup { MkRepoDir(r) : r \in RepoPool }

RemotePool ==
    { [tips |-> [b \in Branches |-> IF b = "main" THEN t ELSE 3], needsAuth |-> a] :
        t \in 1..Len(BaseCommits), a \in BOOLEAN }

CfgKinds == {"missing", "empty", "unparsable", "valid"}

InitCommon ==
    /\ config = None
    /\ commits = BaseCommits
    /\ pc = "start"
    /\ idx = 1
    /\ run = 1
    /\ attempts = <<>>
    /\ prevRun = <<>>
    /\ last = NoSync
    /\ pb = NoBar
    /\ stats = NoStats

\* The providers a directory is combined with: every provider when the
\* directory is no repository (the clone path and the failures of open read
\* the auth), a few of each kind when it is one (the pull path, which reads
\* only sync_dir and branch).
PullProviders ==
    { MkProvider(HttpsUrl, b, MkAuth("Public", None, None, None)) : b \in Branches }
    \cup { MkProvider(HttpsUrl, "main", TokenAuth(Some(UVar), Some(PVar))),
           MkProvider(SshUrl, "main", MkAuth("Ssh", None, None, Some(KeyPath))) }

ProvidersFor(d) == IF d.kind = "repo" THEN PullProviders ELSE ProviderPool

\* One provider; every combination of directory, provider and remote.
Init ==
    /\ InitCommon
    /\ \/ /\ cfgFile \in { [kind |-> k, providers |-> <<>>] : k \in CfgKinds }
          /\ fs = <<>>
          /\ remote = <<>>
       \/ /\ fs \in { <<d>> : d \in DirPool }
          /\ cfgFile \in { [kind |-> "valid", providers |-> <<p>>] : p \in ProvidersFor(fs[1]) }
          /\ remote \in { <<r>> : r \in RemotePool }

\* A fleet: up to MaxProviders providers, each with its own sync_dir and
\* remote, drawn from the combinations that fail or succeed in each way.
FleetSlots ==
    LET pub == MkProvider(HttpsUrl, "main", MkAuth("Public", None, None, None))
        tok == MkProvider(HttpsUrl, "main", TokenAuth(Some(UVar), Some(PVar)))
        repo1 == CleanRepo("main", [b \in Branches |-> IF b = "main" THEN 1 ELSE NoCommit])
        open == [tips |-> [b \in Branches |-> 3], needsAuth |-> FALSE]
        auth == [tips |-> [b \in Branches |-> 3], needsAuth |-> TRUE]
        other == [tips |-> [b \in Branches |-> 6], needsAuth |-> FALSE]
    IN  { [p |-> q, d |-> MkDir("missing"), r |-> r] : q \in {pub, tok}, r \in {open, auth} }
        \cup { [p |-> pub, d |-> MkRepoDir(repo1), r |-> r] : r \in {open, auth, other} }
        \cup { [p |-> pub, d |-> d, r |-> open] :
                 d \in { MkDir("dir"), MkRepoDir([repo1 EXCEPT !.origin = FALSE]) } }

InitFleet ==
    /\ InitCommon
    /\ \E n \in 0..MaxProviders :
         \E sl \in [1..n -> FleetSlots] :
            /\ cfgFile \in { [kind |-> k, providers |-> [j \in 1..n |-> sl[j].p]] :
                               k \in IF n = 0 THEN CfgKinds ELSE {"valid"} }
            /\ fs = [j \in 1..n |-> sl[j].d]
            /\ remote = [j \in 1..n |-> sl[j].r]

\* ----------------------------------------------------------------- actions
\* GloneOptions::load (create_config_file, load_config) and main's match.
LoadConfig ==
    /\ pc = "start"
    /\ cfgFile' = IF cfgFile.kind = "missing" THEN [cfgFile EXCEPT !.kind = "empty"]
                  ELSE cfgFile
    /\ config' = IF cfgFile.kind = "valid" THEN Some(cfgFile.providers) ELSE None
    /\ pc' = IF config'.some THEN "loop" ELSE "panicked"
    /\ idx' = 1
    /\ UNCHANGED <<fs, remote, commits, run, attempts, prevRun, last, pb, stats>>

\* What the environment decides during one download call.  reachable: the
\* transport connects; accept: the remote accepts the credentials submitted;
\* env: the environment variables that are set; sigOk: an identity is
\* configured; fault: the step of fast_forward that returns an error.
\* accept and env are read on the clone path only, sigOk by normal_merge only
\* and fault by fast_forward only, so they vary one group at a time.
MkInput(r, a, e, s, f) ==
    [reachable |-> r, accept |-> a, env |-> e, sigOk |-> s, fault |-> f]

Inputs ==
    { MkInput(r, a, e, TRUE, "none") : r \in BOOLEAN, a \in BOOLEAN, e \in EnvPool }
    \cup { MkInput(r, TRUE, {UVar, PVar}, s, "none") : r \in BOOLEAN, s \in BOOLEAN }
    \cup { MkInput(r, TRUE, {UVar, PVar}, TRUE, f) : r \in BOOLEAN, f \in Faults }

\* The state after download returned r (or panicked) for provider idx.
Record(r, in) ==
    /\ fs' = [fs EXCEPT ![idx] = r.dir]
    /\ commits' = r.cs
    /\ last' = [i |-> idx, p |-> config.val[idx], path |-> r.path, ops |-> r.ops, panic |-> r.panic,
                outcome |-> r.outcome, err |-> r.err, fetched |-> r.fetched,
                fault |-> in.fault, sigOk |-> in.sigOk, pre |-> fs[idx],
                ncommits |-> Len(commits)]
    /\ attempts' = Append(attempts, [i |-> idx, path |-> r.path, outcome |-> r.outcome])
    /\ pc' = IF r.panic # "" THEN "panicked" ELSE "loop"
    /\ idx' = IF r.panic # "" THEN idx ELSE idx + 1

\* One iteration of main's for loop: git::download(provider).
Download ==
    /\ pc = "loop"
    /\ idx <= Len(config.val)
    /\ \E in \in Inputs :
         Record(DownloadResult(config.val[idx], fs[idx], remote[idx], commits,
                               in.reachable, in.accept, in.env, in.sigOk, in.fault), in)
    /\ UNCHANGED <<cfgFile, config, remote, run, prevRun, pb, stats>>

\* The for loop is over: main returns.
Finish ==
    /\ pc = "loop"
    /\ idx > Len(config.val)
    /\ pc' = "done"
    /\ UNCHANGED <<cfgFile, config, fs, remote, commits, idx, run, attempts, prevRun, last,
                   pb, stats>>

\* The program is started again; the file system is what the last run left.
NextRun ==
    /\ pc \in {"done", "panicked"}
    /\ run < MaxRuns
    /\ run' = run + 1
    /\ pc' = "start"
    /\ config' = None
    /\ idx' = 1
    /\ prevRun' = attempts
    /\ attempts' = <<>>
    /\ last' = NoSync
    /\ UNCHANGED <<cfgFile, fs, remote, commits, pb, stats>>

Next == LoadConfig \/ Download \/ Finish \/ NextRun

Spec == Init /\ [][Next]_vars

SpecFleet == InitFleet /\ [][Next]_vars

\* ------------------------------------------------- one transfer, step by step
\* A transfer of clone or of fetch seen from its progress bar: the bar is
\* created, then the transport calls the transfer-progress closure.
InitProgress ==
    /\ cfgFile = [kind |-> "valid", providers |-> <<>>]
    /\ config = None
    /\ fs = <<>>
    /\ remote = <<>>
    /\ commits = BaseCommits
    /\ pc = "transfer"
    /\ idx = 1
    /\ run = 1
    /\ attempts = <<>>
    /\ prevRun = <<>>
    /\ last = NoSync
    /\ pb = NoBar
    /\ stats = NoStats

\* clone or fetch creates its bar and starts a transfer of total objects.
AddBar ==
    /\ pc = "transfer"
    /\ pb = NoBar
    /\ \E kind \in {"clone", "fetch"} : pb' = NewBar(kind)
    /\ \E total \in 0..MaxObjects : stats' = [received |-> 0, total |-> total, calls |-> 0]
    /\ UNCHANGED <<cfgFile, config, fs, remote, commits, pc, idx, run, attempts, prevRun, last>>

\* The transport calls the closure: after the pack header (no object
\* received yet), after an object was received, or after more bytes or
\* resolved deltas only (the received-object count is the same as before).
TransferProgress ==
    /\ pc = "transfer"
    /\ pb # NoBar
    /\ stats.calls < MaxCallbacks
    /\ \E received \in {stats.received, stats.received + 1} :
         /\ received <= stats.total
         /\ stats' = [stats EXCEPT !.received = received, !.calls = stats.calls + 1]
         /\ pb' = ProgressCallback(pb, received, stats.total)
    /\ UNCHANGED <<cfgFile, config, fs, remote, commits, pc, idx, run, attempts, prevRun, last>>

NextProgress == AddBar \/ TransferProgress

SpecProgress == InitProgress /\ [][NextProgress]_vars

\* ------------------------------------------------------------------ claims
Has(ops, x) == \E k \in DOMAIN ops : ops[k] = x

Synced == last.i # 0

\* What is at the provider's sync_dir after the last download call.
Post == fs[last.i]

PullOps == {"open", "find_remote", "fetch", "merge_analysis"}

\* The last download call fetched a commit and ran merge on a born HEAD.
Merging ==
    /\ Synced
    /\ last.path = "pull"
    /\ last.fetched # NoCommit
    /\ HeadCommit(last.pre.repo) # NoCommit

LocalHead == HeadCommit(last.pre.repo)

\* C1 (as amended): download takes the pull path if and only if sync_dir
\* exists and is a directory, and the clone path otherwise, never both; when
\* sync_dir does not exist no step of the pull path runs, and either the
\* outcome is Cloned, with a repository at sync_dir whose branch and working
\* tree are the remote branch tip, or the clone failed and sync_dir is still
\* missing.
C1_ExactlyOnePath ==
    Synced =>
        /\ last.path \in {"clone", "pull"}
        /\ last.path = "pull" <=> last.pre.kind \in {"emptydir", "dir", "repo"}
        /\ last.path = "pull" => ~ Has(last.ops, "clone")
        /\ last.path = "clone" => \A o \in PullOps : ~ Has(last.ops, o)
        /\ last.pre.kind = "missing" =>
              /\ last.path = "clone"
              /\ \/ /\ last.outcome = "Cloned"
                    /\ Post.kind = "repo"
                    /\ Post.repo.refs[last.p.branch] = remote[last.i].tips[last.p.branch]
                    /\ Post.repo.wt = TreeOf(commits, Post.repo.refs[last.p.branch])
                 \/ /\ last.outcome \in {"CloneFailed", "Panicked"}
                    /\ Post.kind = "missing"

C1_Witness ==
    /\ Synced
    /\ last.pre.kind = "missing"
    /\ last.outcome = "Cloned"
    /\ Has(last.ops, "challenge")

\* C1 as stated: ... when sync_dir does not exist the outcome is Cloned.
C1_Original ==
    Synced =>
        /\ last.path = "pull" <=> last.pre.kind \in {"emptydir", "dir", "repo"}
        /\ last.pre.kind = "missing" =>
              /\ \A o \in PullOps : ~ Has(last.ops, o)
              /\ last.outcome = "Cloned"

\* C2: on the pull path, when the fetched commit is the local head or one of
\* its ancestors, the outcome is UpToDate: no branch reference moves, HEAD
\* stays, no commit is created and the working tree is as it was.
C2_UpToDate ==
    (Merging /\ IsAncestor(commits, last.fetched, LocalHead)) =>
        /\ last.outcome = "UpToDate"
        /\ Post.repo.refs = last.pre.repo.refs
        /\ Post.repo.head = last.pre.repo.head
        /\ Post.repo.wt = last.pre.repo.wt
        /\ Len(commits) = last.ncommits
        /\ ~ Has(last.ops, "checkout_head")

C2_Witness ==
    /\ Merging
    /\ IsAncestor(commits, last.fetched, LocalHead)
    /\ last.fetched # LocalHead
    /\ last.pre.repo.wt["f"] = Edited
    /\ last.outcome = "UpToDate"

\* C3: on the pull path, when the local head is a strict ancestor of the
\* fetched commit and no step of the fast-forward returns an error, the branch
\* reference of the provider's branch is the fetched commit afterwards and the
\* working tree is that commit's tree, uncommitted modifications included.
C3_FastForward ==
    (/\ Merging
     /\ LocalHead # last.fetched
     /\ IsAncestor(commits, LocalHead, last.fetched)
     /\ last.fault = "none") =>
        /\ Post.repo.refs[last.p.branch] = last.fetched
        /\ Post.repo.wt = TreeOf(commits, last.fetched)

C3_Witness ==
    /\ Merging
    /\ LocalHead # last.fetched
    /\ IsAncestor(commits, LocalHead, last.fetched)
    /\ last.fault = "none"
    /\ last.outcome = "FastForwarded"
    /\ last.pre.repo.wt["f"] = Edited
    /\ Post.repo.wt = TreeOf(commits, last.fetched)

\* The local head and the fetched commit have diverged and have a merge base.
Diverged ==
    /\ Merging
    /\ ~ IsAncestor(commits, LocalHead, last.fetched)
    /\ ~ IsAncestor(commits, last.fetched, LocalHead)
    /\ MergeBase(commits, LocalHead, last.fetched) # NoCommit

\* The three-way merge of the trees of the local head and the fetched commit.
MergedIndex ==
    MergeTrees(TreeOf(commits, MergeBase(commits, LocalHead, last.fetched)),
               TreeOf(commits, LocalHead), TreeOf(commits, last.fetched))

CleanBefore == last.pre.repo.wt = TreeOf(commits, LocalHead)

\* C4 as stated: on the pull path, when the local head and the fetched commit
\* have diverged without conflicting changes (an identity is configured, the
\* working tree is clean), exactly one commit is created, its parents are
\* (prior local head, fetched commit) in that order, HEAD points at it and the
\* working tree equals the merged tree.
C4_Original ==
    (Diverged /\ ~ HasConflicts(MergedIndex) /\ last.sigOk /\ CleanBefore) =>
        /\ Len(commits) = last.ncommits + 1
        /\ commits[Len(commits)].parents = <<LocalHead, last.fetched>>
        /\ HeadCommit(Post.repo) = Len(commits)
        /\ Post.repo.wt = MergedIndex

C6_FailedCloneIsRetried ==
    \A j \in DOMAIN prevRun : \A k \in DOMAIN attempts :
        (/\ prevRun[j].i = attempts[k].i
         /\ prevRun[j].path = "clone"
         /\ prevRun[j].outcome # "Cloned") => attempts[k].path = "clone"

C6_Witness ==
    \E j \in DOMAIN prevRun : \E k \in DOMAIN attempts :
        /\ prevRun[j].i = attempts[k].i
        /\ prevRun[j].path = "clone"
        /\ prevRun[j].outcome = "CloneFailed"
        /\ attempts[k].path = "clone"
        /\ last.pre.kind = "missing"

\* C7 as stated: a failure of one provider never prevents the providers after
\* it from being processed: when the run is over every provider of the list
\* has had its sync attempt.
C7_Original ==
    (pc \in {"done", "panicked"} /\ config.some) =>
        \A j \in 1..Len(config.val) : \E k \in DOMAIN attempts : attempts[k].i = j

\* C8 as stated: with a missing, empty or unparsable configuration file the
\* run processes no provider and ends normally, without a panic.
C8_Original ==
    (cfgFile.kind # "valid" /\ pc # "start") => (pc # "panicked" /\ attempts = <<>>)

\* A Token auth with a variable name that does not start with '_'.
BadTokenNames(a) ==
    /\ a.type = "Token"
    /\ \/ a.username.some /\ ~ StartsWith(a.username.val, "_")
       \/ a.password.some /\ ~ StartsWith(a.password.val, "_")

\* C9: for Token auth with a username or password variable name that does not
\* start with '_', the sync attempt reads no environment variable and submits
\* no credential.
C9_NoCredentialLookup ==
    (Synced /\ BadTokenNames(last.p.auth)) =>
        /\ ~ Has(last.ops, "env_read")
        /\ ~ Has(last.ops, "cred_submit")

C9_Witness ==
    /\ Synced
    /\ BadTokenNames(last.p.auth)
    /\ last.p.auth.username.some
    /\ StartsWith(last.p.auth.username.val, "_")
    /\ Has(last.ops, "challenge")

\* C10 as stated: when a variable named by a valid Token auth is unset, the
\* sync attempt fails before any network call: no transport operation comes
\* before the credential failure.
C10_Original ==
    (Synced /\ last.panic = "env_var") =>
        /\ ~ Has(last.ops, "connect")
        /\ ~ Has(last.ops, "challenge")

\* C11 as stated: whenever the remote challenges for credentials during the
\* fetch of a provider whose auth resolves to a strategy (valid Token, Ssh),
\* the strategy answers the challenge: a credential is submitted.
C11_Original ==
    (/\ Synced
     /\ last.path = "pull"
     /\ Has(last.ops, "challenge")
     /\ CredStrategy(last.p) # "none") => Has(last.ops, "cred_submit")

\* The lines with which a failure is reported.
FailureLines == {"Failed to open the repository"}

\* C12 as stated: a clone that fails, and a merge that fails after a
\* successful fetch, are each reported as a failure for the provider: a line
\* of the log says so (download returns nothing).
C12_Original ==
    (Synced /\ last.panic = "" /\ last.outcome \in {"CloneFailed", "MergeError"}) =>
        \E k \in DOMAIN LogLines(last.path, last.ops, last.outcome, last.panic) :
            LogLines(last.path, last.ops, last.outcome, last.panic)[k] \in FailureLines

\* C13 as stated: when the reference of the provider's branch does not exist,
\* the pull path creates it at the fetched commit, makes it HEAD and writes
\* the working tree, without creating a commit; and the reference is created
\* only in that case.
C13_Original ==
    (Synced /\ last.path = "pull" /\ last.fetched # NoCommit) =>
        /\ last.pre.repo.refs[last.p.branch] = NoCommit =>
              /\ Post.repo.refs[last.p.branch] = last.fetched
              /\ Post.repo.head = last.p.branch
              /\ Post.repo.wt = TreeOf(commits, last.fetched)
              /\ Len(commits) = last.ncommits
        /\ Has(last.ops, "reference") => last.pre.repo.refs[last.p.branch] = NoCommit

\* C14 as stated: for Token auth with an unpopulated username or password,
\* the sync attempt aborts while resolving the credentials; it never goes on
\* to a transfer.
C14_Original ==
    (/\ Synced
     /\ last.p.auth.type = "Token"
     /\ (~ last.p.auth.username.some \/ ~ last.p.auth.password.some)) =>
        /\ last.panic = "is_valid_cred"
        /\ ~ Has(last.ops, "connect")

\* C15 as stated: for Ssh auth the key path handed to the transport is the
\* value of the path field, and the two revisions of get_ssh_path (config.rs
\* and the config module of main.rs) return the same for every Auth.
C15_Original ==
    (Synced /\ last.p.auth.type = "Ssh") =>
        /\ GetSshPathInline(last.p.auth) = GetSshPath(last.p.auth)
        /\ ~ GetSshPath(last.p.auth).panic => GetSshPath(last.p.auth).value = last.p.auth.path

\* C16 as stated: when a run is over, every provider of the loaded list has
\* had exactly one download call, and the calls were made in list order.
C16_Original ==
    (pc \in {"done", "panicked"} /\ config.some) =>
        /\ Len(attempts) = Len(config.val)
        /\ \A k \in DOMAIN attempts : attempts[k].i = k

\* C17 as stated: whenever fast_forward moves the existing reference of the
\* provider's branch, its previous target is the new target or one of its
\* ancestors, whatever branch HEAD is on.
C17_Original ==
    (/\ Synced
     /\ Has(last.ops, "set_target")
     /\ Post.repo.refs[last.p.branch] # last.pre.repo.refs[last.p.branch]) =>
        IsAncestor(commits, last.pre.repo.refs[last.p.branch], Post.repo.refs[last.p.branch])

\* C18 as stated: when fast_forward returns an error at one of its steps, the
\* branch reference and the working tree are both as they were before the
\* call.
C18_Original ==
    (Synced /\ Has(last.ops, "set_target") /\ last.outcome = "MergeError") =>
        /\ Post.repo.refs[last.p.branch] = last.pre.repo.refs[last.p.branch]
        /\ Post.repo.wt = last.pre.repo.wt

\* The operations of merge that write a reference, HEAD or the working tree.
MergeWrites == {"set_target", "set_head", "reference", "commit", "checkout_head", "checkout_index"}

\* C19: fetch asks the remote for the provider's branch: the commit it returns
\* is the remote tip of that branch and FETCH_HEAD designates it; when merge
\* then writes nothing, the branch references, HEAD and the working tree are
\* as they were before the fetch.  A fetch that fails returns no commit and
\* leaves the repository as it was.
C19_FetchFrame ==
    (Synced /\ last.path = "pull" /\ Has(last.ops, "fetch")) =>
        /\ last.panic = "fetch" => (last.fetched = NoCommit /\ Post = last.pre)
        /\ last.panic = "" =>
              /\ last.fetched = remote[last.i].tips[last.p.branch]
              /\ Post.repo.fetchHead = last.fetched
              /\ (\A o \in MergeWrites : ~ Has(last.ops, o)) =>
                    /\ Post.repo.refs = last.pre.repo.refs
                    /\ Post.repo.head = last.pre.repo.head
                    /\ Post.repo.wt = last.pre.repo.wt

C19_Witness ==
    /\ Synced
    /\ Has(last.ops, "fetch_head")
    /\ last.outcome = "UpToDate"
    /\ last.fetched # HeadCommit(last.pre.repo)
    /\ last.pre.repo.wt["f"] = Edited
    /\ Post.repo.fetchHead = last.fetched
    /\ Post.repo.refs = last.pre.repo.refs

\* C20 as stated: at every transfer-progress callback the position of the bar
\* is the transport's received-object count and its length the total-object
\* count, and the position never exceeds the length.
C20_Original ==
    stats.calls > 0 =>
        /\ pb.pos = stats.received
        /\ pb.len = stats.total
        /\ pb.pos <= pb.len

\* C21 as stated: the finished signal of a transfer is emitted only once all
\* its objects are received, and at most once: no second finished follows it,
\* whatever callbacks the transport delivers.
C21_Original ==
    /\ pb.finishes <= 1
    /\ pb.finished => stats.received = stats.total

\* The providers that differ from p in url and auth only.
SameButUrlAuth(p) == { MkProvider(u, p.branch, a) : u \in {HttpsUrl, SshUrl}, a \in AuthPool }

\* The object store before the last download call.
CommitsBefore == SubSeq(commits, 1, last.ncommits)

\* What the last download call, on the pull path, does for provider q in
\* place of its own, the transport connecting (reachable) or not.
PullAs(q, reachable) ==
    Pull(q, last.pre, remote[last.i], CommitsBefore, reachable, last.sigOk, last.fault)

\* The result r is what the last download call did.
IsLastCall(r) ==
    /\ r.ops = last.ops
    /\ r.panic = last.panic
    /\ r.outcome = last.outcome
    /\ r.dir = Post
    /\ r.cs = commits

\* C22: on the pull path, a provider that differs from the one of the call in
\* url and auth only gets the same operations, the same outcome and the same
\* repository at sync_dir: they are those of the call itself.
C22_PullIgnoresUrlAuth ==
    (Synced /\ last.path = "pull") =>
        \E reachable \in BOOLEAN :
            \A q \in SameButUrlAuth(last.p) : IsLastCall(PullAs(q, reachable))

C22_Witness ==
    /\ Synced
    /\ last.path = "pull"
    /\ last.p.auth.type = "Token"
    /\ last.outcome = "FastForwarded"
    /\ \E q \in SameButUrlAuth(last.p) : q.auth # last.p.auth /\ q.url # last.p.url

\* The outcomes of a download that brought sync_dir to the remote's state.
SyncedOutcomes == {"Cloned", "FastForwarded", "BranchCreated", "Merged"}

\* The transport of the last download call reached the remote.
RemoteReached == ~ (last.panic = "fetch" /\ ~ Has(last.ops, "challenge"))

\* C23 as stated: after a download that ended in a clone, a fast-forward, the
\* creation of the branch or a conflict-free merge, the next download of the
\* same provider (same remote, which it reaches) takes the pull path, finds
\* the repository up to date and leaves references, HEAD and working tree as
\* they were.
C23_Original ==
    \A j \in DOMAIN prevRun :
        (/\ Synced
         /\ prevRun[j].i = last.i
         /\ prevRun[j].outcome \in SyncedOutcomes
         /\ RemoteReached) =>
            /\ last.path = "pull"
            /\ last.outcome = "UpToDate"
            /\ Post.repo.refs = last.pre.repo.refs
            /\ Post.repo.head = last.pre.repo.head
            /\ Post.repo.wt = last.pre.repo.wt

====
